---------------------------- MODULE Spec2Model ----------------------------
(***************************************************************************)
(* Model of the schema generator: the two generate_schema functions        *)
(* (src/app.py, one request; src/json-id-generator.py, a retry loop), the  *)
(* Selenium extractor AdvancedWebContentExtractor, compare_schemas, the    *)
(* two text extractors of app.py, the session of app.py and the handler    *)
(* "Generate Schema from URL" of json-id-generator.py.                     *)
(*                                                                         *)
(* A model response is a sequence of lexemes.  The structural lexemes are  *)
(* the braces, the colon and the comma; "url" and "error" stand for the    *)
(* JSON string literals "url" and "error"; "1" is a number; "Sure" is a    *)
(* word of prose.  No literal contains a brace, so str.find('{') and       *)
(* str.rfind('}') act on lexemes exactly as they act on characters.        *)
(***************************************************************************)
EXTENDS Integers, Sequences, FiniteSets, TLC

(* ------------------------------ bounds ---------------------------------- *)
\* longest model response, in lexemes
MaxLen == 5
\* largest value of the retries parameter
MaxRetries == 2
\* most elements one locator strategy finds
MaxElems == 2
\* most elements of the page that is harvested
MaxPageElems == 1
\* longest comparison response, in characters
MaxText == 6
\* most text nodes and image tags of a parsed page
MaxNodes == 3
\* most button clicks of a session
MaxClicks == 3

(* ------------------------------ lexemes --------------------------------- *)
LBRACE == "{"
RBRACE == "}"
COLON == ":"
COMMA == ","
NUMBER == "1"
PROSE == "Sure"
StringLiterals == {"url", "error"}
\* the lexemes a response is drawn from
Tokens == {LBRACE, RBRACE, COLON, PROSE} \cup StringLiterals
Responses == UNION {[1..n -> Tokens] : n \in 0..MaxLen}

(* ---------------------------- Python values ----------------------------- *)
\* a str, a dict (a function from keys to values) and the absence of a value
EmptyMap == [k \in {} |-> 0]
Str(v) == [t |-> "str", s |-> v, m |-> EmptyMap]
Num(v) == [t |-> "num", s |-> v, m |-> EmptyMap]
Dict(m) == [t |-> "dict", s |-> "", m |-> m]
NoValue == [t |-> "none", s |-> "", m |-> EmptyMap]
Keys(d) == DOMAIN d.m

(* ------------------------------ str methods ----------------------------- *)
\* str.find: the 0-based index of the first occurrence, or -1
Find(s, ch) ==
  IF \E i \in 1..Len(s) : s[i] = ch
  THEN (CHOOSE i \in 1..Len(s) : s[i] = ch /\ \A j \in 1..(i - 1) : s[j] # ch) - 1
  ELSE -1

\* str.rfind: the 0-based index of the last occurrence, or -1
RFind(s, ch) ==
  IF \E i \in 1..Len(s) : s[i] = ch
  THEN (CHOOSE i \in 1..Len(s) : s[i] = ch /\ \A j \in (i + 1)..Len(s) : s[j] # ch) - 1
  ELSE -1

\* s[a:b] for 0 <= a: the lexemes at 0-based indices a..b-1 (empty when a >= b)
Slice(s, a, b) == SubSeq(s, a + 1, IF b > Len(s) THEN Len(s) ELSE b)

(* ------------------------------ json.loads ------------------------------ *)
\* a recursive-descent decoder of the JSON grammar over the lexemes:
\*   value  ::= NUMBER | string | object
\*   object ::= { } | { string : value (, string : value)* }
\* a repeated key keeps its last value, as a Python dict does
ParseFail == [ok |-> FALSE, val |-> NoValue, next |-> 0]

RECURSIVE ParseValue(_, _), ParseMembers(_, _, _)
ParseValue(s, i) ==
  IF i > Len(s) THEN ParseFail
  ELSE IF s[i] = NUMBER THEN [ok |-> TRUE, val |-> Num(s[i]), next |-> i + 1]
  ELSE IF s[i] \in StringLiterals THEN [ok |-> TRUE, val |-> Str(s[i]), next |-> i + 1]
  ELSE IF s[i] = LBRACE
       THEN IF i + 1 <= Len(s) /\ s[i + 1] = RBRACE
            THEN [ok |-> TRUE, val |-> Dict(EmptyMap), next |-> i + 2]
            ELSE ParseMembers(s, i + 1, EmptyMap)
  ELSE ParseFail

ParseMembers(s, i, m) ==
  IF i + 1 > Len(s) \/ s[i] \notin StringLiterals \/ s[i + 1] # COLON THEN ParseFail
  ELSE LET v == ParseValue(s, i + 2) IN
       IF ~v.ok \/ v.next > Len(s) THEN ParseFail
       ELSE LET m2 == [k \in (DOMAIN m) \cup {s[i]} |-> IF k = s[i] THEN v.val ELSE m[k]] IN
            IF s[v.next] = RBRACE THEN [ok |-> TRUE, val |-> Dict(m2), next |-> v.next + 1]
            ELSE IF s[v.next] = COMMA THEN ParseMembers(s, v.next + 1, m2)
            ELSE ParseFail

\* json.loads(s): the decoded value, or a JSONDecodeError (ok = FALSE); text
\* after the first value is "Extra data", an error
json_loads(s) ==
  LET r == ParseValue(s, 1) IN
  IF r.ok /\ r.next = Len(s) + 1 THEN [ok |-> TRUE, val |-> r.val]
  ELSE [ok |-> FALSE, val |-> NoValue]


(* --------------------------- generate_schema ---------------------------- *)
VARIABLES
  fn,        \* which generate_schema was called: "none", "app" or "retrying"
  pc,        \* "idle", "loop" (in the retry loop), "done" (returned), "raised"
  retries,   \* the retries argument of the retrying version
  attempt,   \* the loop variable: the number of attempts that ended in the handler
  calls,     \* completion requests issued (the call counter of the client)
  raised,    \* completion requests that raised
  sleeps,    \* time.sleep(2) delays taken
  waited,    \* the seconds slept in all
  lacking,   \* completion requests that returned a text with no brace pair
  outcome,   \* the last request's outcome: "none", "raise" or "text"
  response,  \* the last response text that held a brace pair (a sequence of lexemes)
  result     \* the value returned

genVars == <<fn, pc, retries, attempt, calls, raised, sleeps, waited, lacking, outcome,
             response, result>>

VARIABLES
  xpc,           \* "new", "ctor_failed", "ready", "strategy", "element",
                 \* "harvest", "teardown", "returned", "raised"
  strat,         \* the locator strategy the expand loop is at (1..NumStrategies)
  nfound,        \* elements the current strategy located
  elem,          \* the element the inner loop is at (1..nfound)
  tried,         \* the strategies find_elements was called with, in call order
  activated,     \* the elements of the current strategy whose activation was attempted
  events,        \* the local failures (and zero matches) met so far
  quitCalls,     \* calls of driver.quit
  usedAfterQuit, \* a browser operation was issued after driver.quit
  harvests,      \* calls of extract_comprehensive_contents
  extracted,     \* what extract_comprehensive_contents returned
  xresult        \* what comprehensive_extraction returns

extVars == <<xpc, strat, nfound, elem, tried, activated, events, quitCalls,
             usedAfterQuit, harvests, extracted, xresult>>

VARIABLES
  cmp,   \* a call of compare_schemas: its position, the response and the result
  web,   \* a call of extract_text_from_web: its position, the page and the result
  jsn,   \* a call of extract_text_from_json: its position, the text and the result
  ses,   \* the Streamlit session of app.py and what its handlers did
  mn     \* the "Generate from URL" handler of json-id-generator.py

otherVars == <<cmp, web, jsn, ses, mn>>

\* what the completion request can do: raise (the request itself, or reading
\* completion.choices[0].message.content), or return a text
Outcomes ==
  {[kind |-> "raise", text |-> <<>>]} \cup {[kind |-> "text", text |-> r] : r \in Responses}

\* the message of an exception raised by the request (str(e) in app.py)
RequestErrorText == "request failed"
NoJsonText == "No valid JSON found in response"
InvalidJsonText == "Invalid JSON format in response"
ExhaustedText == "Failed to generate schema after multiple attempts"

\* a text with no "{" or no "}" (what the request returned, whatever the
\* function then does with it)
LacksPair(resp) ==
  \/ \A i \in 1..Len(resp) : resp[i] # LBRACE
  \/ \A i \in 1..Len(resp) : resp[i] # RBRACE

\* faulty variant: the message itself is returned, not a mapping
ErrorMessageOnly(msg) == Str(msg)

\* {"error": msg}
ErrorMarker(msg) == Dict("error" :> Str(msg))

\* faulty variant: the last "{" instead of the first
json_start_last(resp) == RFind(resp, LBRACE)

json_start(resp) == Find(resp, LBRACE)

\* faulty variant: the "+ 1" forgotten, so the slice stops before the last "}"
json_end_exclusive(resp) == RFind(resp, RBRACE)

json_end(resp) == RFind(resp, RBRACE) + 1

\* if json_start == -1 or json_end == 0: raise ValueError
NoJsonFound(resp) == json_start(resp) = -1 \/ json_end(resp) = 0

schema_json(resp) == Slice(resp, json_start(resp), json_end(resp))

\* faulty variant: a JSONDecodeError is left to the outer handler, which retries
DecodeOrRetry(resp) ==
  LET d == json_loads(schema_json(resp)) IN
  IF d.ok THEN [act |-> "return", val |-> d.val] ELSE [act |-> "retry", val |-> NoValue]

\* the inner try: return json.loads(schema_json), or the error marker on a
\* JSONDecodeError; either way the function returns
DecodeOrMarker(resp) ==
  LET d == json_loads(schema_json(resp)) IN
  [act |-> "return", val |-> IF d.ok THEN d.val ELSE ErrorMarker(InvalidJsonText)]

\* faulty variant: the handler catches the request's exceptions only
CaughtRequestErrorsOnly(exc) == exc = "RequestError"

\* the exceptions the outer handler (except Exception) catches
CaughtByHandler(exc) == exc \in {"RequestError", "ValueError"}

\* the try block of app.py's generate_schema and its handler
AppBody(o) ==
  IF o.kind = "raise"
  THEN IF CaughtByHandler("RequestError")
       THEN [act |-> "return", val |-> ErrorMarker(RequestErrorText)]
       ELSE [act |-> "raise", val |-> NoValue]
  ELSE IF NoJsonFound(o.text)
  THEN IF CaughtByHandler("ValueError")
       THEN [act |-> "return", val |-> ErrorMarker(NoJsonText)]
       ELSE [act |-> "raise", val |-> NoValue]
  ELSE DecodeOrMarker(o.text)

\* one iteration of the retry loop: the try block and its handler, which
\* logs, sleeps and lets the loop go on ("retry")
LoopBody(o) ==
  IF o.kind = "raise"
  THEN IF CaughtByHandler("RequestError")
       THEN [act |-> "retry", val |-> NoValue]
       ELSE [act |-> "raise", val |-> NoValue]
  ELSE IF NoJsonFound(o.text)
  THEN IF CaughtByHandler("ValueError")
       THEN [act |-> "retry", val |-> NoValue]
       ELSE [act |-> "raise", val |-> NoValue]
  ELSE DecodeOrMarker(o.text)

\* faulty variant: one iteration too many
RangeEndOffByOne(n) == n + 1

\* for attempt in range(retries): the loop runs while attempt < RangeEnd
RangeEnd(n) == n

\* the length of the delay, in seconds
BackoffSeconds == 2

\* faulty variant: the delay grows with the attempt
BackoffGrowing(n) == BackoffSeconds * (n + 1)

\* time.sleep(2) in the handler, whatever the attempt
Backoff(n) == BackoffSeconds

InitGen ==
  /\ fn = "none"
  /\ pc = "idle"
  /\ retries = 0
  /\ attempt = 0
  /\ calls = 0
  /\ raised = 0
  /\ sleeps = 0
  /\ waited = 0
  /\ lacking = 0
  /\ outcome = "none"
  /\ response = <<>>
  /\ result = NoValue

\* app.py generate_schema: one request, no loop
CallApp ==
  /\ pc = "idle"
  /\ \E o \in Outcomes :
      /\ fn' = "app"
      /\ calls' = calls + 1
      /\ raised' = IF o.kind = "raise" THEN raised + 1 ELSE raised
      /\ lacking' = IF o.kind = "text" /\ LacksPair(o.text) THEN lacking + 1 ELSE lacking
      /\ outcome' = o.kind
      /\ response' = IF LacksPair(o.text) THEN <<>> ELSE o.text
      /\ LET b == AppBody(o) IN
         /\ result' = b.val
         /\ pc' = IF b.act = "return" THEN "done" ELSE "raised"
      /\ UNCHANGED <<retries, attempt, sleeps, waited>>
  /\ UNCHANGED <<extVars, otherVars>>

\* json-id-generator.py generate_schema is entered with retries = n
CallRetrying ==
  /\ pc = "idle"
  /\ fn' = "retrying"
  /\ \E n \in 0..MaxRetries : retries' = n
  /\ attempt' = 0
  /\ pc' = "loop"
  /\ UNCHANGED <<calls, raised, sleeps, waited, lacking, outcome, response, result>>
  /\ UNCHANGED <<extVars, otherVars>>

\* one iteration of the loop
Attempt ==
  /\ pc = "loop"
  /\ attempt < RangeEnd(retries)
  /\ \E o \in Outcomes :
      /\ calls' = calls + 1
      /\ raised' = IF o.kind = "raise" THEN raised + 1 ELSE raised
      /\ lacking' = IF o.kind = "text" /\ LacksPair(o.text) THEN lacking + 1 ELSE lacking
      /\ outcome' = o.kind
      /\ LET b == LoopBody(o) IN
         \* a text with no brace pair is dead once the ValueError is raised:
         \* it is recorded in the count `lacking` only
         /\ response' = IF LacksPair(o.text) THEN <<>> ELSE o.text
         /\ result' = b.val
         /\ pc' = CASE b.act = "return" -> "done"
                    [] b.act = "retry" -> "loop"
                    [] OTHER -> "raised"
         /\ sleeps' = IF b.act = "retry" THEN sleeps + 1 ELSE sleeps
         /\ waited' = IF b.act = "retry" THEN waited + Backoff(attempt) ELSE waited
         /\ attempt' = IF b.act = "retry" THEN attempt + 1 ELSE attempt
      /\ UNCHANGED <<fn, retries>>
  /\ UNCHANGED <<extVars, otherVars>>

\* the loop is exhausted: return the exhaustion marker
Exhaust ==
  /\ pc = "loop"
  /\ attempt >= RangeEnd(retries)
  /\ result' = ErrorMarker(ExhaustedText)
  /\ pc' = "done"
  /\ UNCHANGED <<fn, retries, attempt, calls, raised, sleeps, waited, lacking, outcome,
                 response>>
  /\ UNCHANGED <<extVars, otherVars>>


(* --------------------- AdvancedWebContentExtractor ---------------------- *)
\* the five XPath expansion strategies
NumStrategies == 5

\* the six category labels of content_selectors
Categories == {"Paragraphs", "Headings", "Divs", "Spans", "Articles", "Sections"}

\* the kinds of element a page is made of, and the category whose selector
\* matches each ("none": no selector does)
ElementKinds == {"p", "h2", "div.content", "div.menu", "span.text", "article", "section"}
CategoryOf(kind) ==
  CASE kind = "p" -> "Paragraphs"
    [] kind = "h2" -> "Headings"
    [] kind = "div.content" -> "Divs"
    [] kind = "span.text" -> "Spans"
    [] kind = "article" -> "Articles"
    [] kind = "section" -> "Sections"
    [] OTHER -> "none"

\* the texts an element holds: characters, " " for white space
RawTexts == {<<>>, <<" ">>, <<" ", "a", " ">>}
Pages == UNION {[1..n -> [kind : ElementKinds, text : RawTexts]] : n \in 0..MaxPageElems}

\* str.strip as get_text(strip=True) applies it
RECURSIVE LStrip(_), RStrip(_)
LStrip(t) == IF t # <<>> /\ Head(t) = " " THEN LStrip(Tail(t)) ELSE t
RStrip(t) == IF t # <<>> /\ t[Len(t)] = " " THEN RStrip(SubSeq(t, 1, Len(t) - 1)) ELSE t
Strip(t) == RStrip(LStrip(t))

\* [elem.get_text(strip=True) for elem in elements if elem.get_text(strip=True)]
RECURSIVE Contents(_, _)
Contents(page, cat) ==
  IF page = <<>> THEN <<>>
  ELSE LET e == Head(page) IN
       IF CategoryOf(e.kind) = cat /\ Strip(e.text) # <<>>
       THEN <<Strip(e.text)>> \o Contents(Tail(page), cat)
       ELSE Contents(Tail(page), cat)

\* extract_comprehensive_contents: the category mapping of the page, or {}
\* when anything raised
extract_comprehensive_contents(raises, page) ==
  IF raises THEN EmptyMap ELSE [c \in Categories |-> Contents(page, c)]

\* faulty variant: a click or scroll error leaves the inner loop (no try around the
\* element's activation)
AfterActivationAbort(failed) == IF failed THEN "next_strategy" ELSE "next_element"

\* the try/except around one element's activation: the loop goes on
AfterActivation(failed) == "next_element"

\* faulty variant: the driver is quit on the success path only
QuitOnSuccessOnly(harvestFailed) == ~harvestFailed

\* finally: if self.driver: self.driver.quit()
FinallyQuits(harvestFailed) == TRUE

\* faulty variant: a navigation error leaves comprehensive_extraction at once
AfterNavigationRaise(ok) == IF ok THEN "strategy" ELSE "teardown"

\* driver.get: on success the strategy loop starts; an error is caught by
\* the handler of expand_all_collapsible_sections, the method returns and
\* comprehensive_extraction goes on with the harvest
AfterNavigation(ok) == IF ok THEN "strategy" ELSE "harvest"

InitExt ==
  /\ xpc = "new"
  /\ strat = 0
  /\ nfound = 0
  /\ elem = 0
  /\ tried = <<>>
  /\ activated = <<>>
  /\ events = {}
  /\ quitCalls = 0
  /\ usedAfterQuit = FALSE
  /\ harvests = 0
  /\ extracted = EmptyMap
  /\ xresult = [kind |-> "unset", contents |-> EmptyMap]

\* a browser operation is issued now
BrowserOp == usedAfterQuit' = (usedAfterQuit \/ quitCalls > 0)

\* the strategy loop moves on: the next strategy, or the final settle wait
\* and the end of expand_all_collapsible_sections
NextStrategy ==
  IF strat < NumStrategies
  THEN /\ strat' = strat + 1
       /\ xpc' = "strategy"
  ELSE /\ strat' = strat
       /\ xpc' = "harvest"

\* __init__: _setup_webdriver starts the headless browser, or raises
Construct ==
  /\ xpc = "new"
  /\ \E ok \in BOOLEAN : xpc' = IF ok THEN "ready" ELSE "ctor_failed"
  /\ UNCHANGED <<strat, nfound, elem, tried, activated, events, quitCalls,
                 usedAfterQuit, harvests, extracted, xresult>>
  /\ UNCHANGED <<genVars, otherVars>>

\* comprehensive_extraction is called; expand_all_collapsible_sections loads
\* the page; a failure of driver.get ends the expand phase
Navigate ==
  /\ xpc = "ready"
  /\ BrowserOp
  /\ \E ok \in BOOLEAN :
       /\ xpc' = AfterNavigation(ok)
       /\ strat' = IF ok THEN 1 ELSE strat
       /\ events' = IF ok THEN events ELSE events \cup {"navigate_failed"}
  /\ UNCHANGED <<nfound, elem, tried, activated, quitCalls, harvests, extracted, xresult>>
  /\ UNCHANGED <<genVars, otherVars>>

\* find_elements with the current strategy: it raises (r = -1) or locates r
\* elements
Locate ==
  /\ xpc = "strategy"
  /\ BrowserOp
  /\ tried' = Append(tried, strat)
  /\ activated' = <<>>
  /\ \E r \in (-1)..MaxElems :
       IF r > 0
       THEN /\ nfound' = r
            /\ elem' = 1
            /\ xpc' = "element"
            /\ strat' = strat
            /\ events' = events
       ELSE /\ nfound' = 0
            /\ elem' = 0
            /\ NextStrategy
            /\ events' = events \cup {IF r = 0 THEN "zero_matched" ELSE "locate_failed"}
  /\ UNCHANGED <<quitCalls, harvests, extracted, xresult>>
  /\ UNCHANGED <<genVars, otherVars>>

\* one element: scroll it into view, then click it; either script may raise
Activate ==
  /\ xpc = "element"
  /\ BrowserOp
  /\ activated' = Append(activated, elem)
  /\ \E o \in {"ok", "scroll_failed", "click_failed"} :
       /\ events' = IF o = "ok" THEN events ELSE events \cup {o}
       /\ IF AfterActivation(o # "ok") = "next_element" /\ elem < nfound
          THEN /\ elem' = elem + 1
               /\ UNCHANGED <<xpc, strat>>
          ELSE /\ elem' = elem
               /\ NextStrategy
  /\ UNCHANGED <<nfound, tried, quitCalls, harvests, extracted, xresult>>
  /\ UNCHANGED <<genVars, otherVars>>

\* extract_comprehensive_contents, and the return value of
\* comprehensive_extraction: {'contents': extracted_contents}
Harvest ==
  /\ xpc = "harvest"
  /\ BrowserOp
  /\ \E raises \in BOOLEAN, page \in Pages :
       /\ raises => page = <<>>
       /\ extracted' = extract_comprehensive_contents(raises, page)
       /\ events' = IF raises THEN events \cup {"harvest_failed"} ELSE events
  /\ harvests' = harvests + 1
  /\ xresult' = [kind |-> "mapping", contents |-> extracted']
  /\ xpc' = "teardown"
  /\ UNCHANGED <<strat, nfound, elem, tried, activated, quitCalls>>
  /\ UNCHANGED <<genVars, otherVars>>

\* the finally clause: driver.quit(), which may itself raise; then the call
\* returns
Teardown ==
  /\ xpc = "teardown"
  /\ IF FinallyQuits("harvest_failed" \in events)
     THEN /\ quitCalls' = quitCalls + 1
          /\ \E ok \in BOOLEAN :
               /\ xpc' = IF ok THEN "returned" ELSE "raised"
               /\ events' = IF ok THEN events ELSE events \cup {"quit_failed"}
     ELSE /\ quitCalls' = quitCalls
          /\ xpc' = "returned"
          /\ events' = events
  /\ UNCHANGED <<strat, nfound, elem, tried, activated, usedAfterQuit, harvests, extracted,
                 xresult>>
  /\ UNCHANGED <<genVars, otherVars>>


(* ---------------------------- compare_schemas --------------------------- *)
\* the comparison response is a sequence of characters: a digit, the dot, the
\* percent sign, a newline and one other character; the two literals the
\* regular expressions look for are single lexemes
DIGIT == "5"
DOT == "."
PERCENT == "%"
NEWLINE == "\n"
LETTER == "x"
MISSING == "Missing fields: "
ADDITIONAL == "Additional fields: "
CmpChars == {DIGIT, DOT, PERCENT, NEWLINE, LETTER, MISSING, ADDITIONAL}
CmpTexts == UNION {[1..n -> CmpChars] : n \in 0..MaxText}

CmpOutcomes ==
  {[kind |-> "raise", text |-> <<>>]} \cup {[kind |-> "text", text |-> r] : r \in CmpTexts}

NoAccuracyText == "No valid accuracy score found in response"

\* the end of the run of digits that starts at i (s[i] is a digit)
RECURSIVE DigitRunEnd(_, _)
DigitRunEnd(s, i) ==
  IF i + 1 <= Len(s) /\ s[i + 1] = DIGIT THEN DigitRunEnd(s, i + 1) ELSE i

\* int(ds) of a run of digits
RECURSIVE DigitsValue(_)
DigitsValue(ds) ==
  IF ds = <<>> THEN 0 ELSE 10 * DigitsValue(SubSeq(ds, 1, Len(ds) - 1)) + 5

RECURSIVE Pow10(_)
Pow10(n) == IF n = 0 THEN 1 ELSE 10 * Pow10(n - 1)

\* float(text) of digits, or digits "." digits: the fraction num / den
Float(whole, frac) ==
  [num |-> DigitsValue(whole \o frac), den |-> Pow10(Len(frac))]

NoMatch == [ok |-> FALSE, whole |-> <<>>, frac |-> <<>>]

\* (\d+(\.\d+)?)% tried at position i: the digits are taken greedily, and
\* giving one back never helps, since a digit is neither "." nor "%"
MatchAt(s, i) ==
  IF s[i] # DIGIT THEN NoMatch
  ELSE LET j == DigitRunEnd(s, i) IN
       IF j + 1 <= Len(s) /\ s[j + 1] = PERCENT
       THEN [ok |-> TRUE, whole |-> SubSeq(s, i, j), frac |-> <<>>]
       ELSE IF j + 2 <= Len(s) /\ s[j + 1] = DOT /\ s[j + 2] = DIGIT
       THEN LET l == DigitRunEnd(s, j + 2) IN
            IF l + 1 <= Len(s) /\ s[l + 1] = PERCENT
            THEN [ok |-> TRUE, whole |-> SubSeq(s, i, j), frac |-> SubSeq(s, j + 2, l)]
            ELSE NoMatch
       ELSE NoMatch

\* re.search(r'(\d+(\.\d+)?)%', response): the leftmost match
accuracy_match(resp) ==
  IF \E i \in 1..Len(resp) : MatchAt(resp, i).ok
  THEN MatchAt(resp, CHOOSE i \in 1..Len(resp) :
                       MatchAt(resp, i).ok /\ \A k \in 1..(i - 1) : ~MatchAt(resp, k).ok)
  ELSE NoMatch

\* the last character of the line that position i is on
RECURSIVE LineEnd(_, _)
LineEnd(s, i) ==
  IF i + 1 <= Len(s) /\ s[i + 1] # NEWLINE THEN LineEnd(s, i + 1) ELSE i

\* faulty variant: re.search in place of re.findall, the first entry only
RECURSIVE FindAllFirstOnly(_, _, _)
FindAllFirstOnly(s, lit, pos) ==
  IF pos > Len(s) THEN <<>>
  ELSE IF s[pos] = lit /\ pos + 1 <= Len(s) /\ s[pos + 1] # NEWLINE
  THEN <<SubSeq(s, pos + 1, LineEnd(s, pos + 1))>>
  ELSE FindAllFirstOnly(s, lit, pos + 1)

\* re.findall(lit + r'(.+)', s) from position pos on: the matches do not
\* overlap, "." matches no newline and ".+" is greedy, so a match runs to the
\* end of its line and the scan goes on after it
RECURSIVE FindAll(_, _, _)
FindAll(s, lit, pos) ==
  IF pos > Len(s) THEN <<>>
  ELSE IF s[pos] = lit /\ pos + 1 <= Len(s) /\ s[pos + 1] # NEWLINE
  THEN LET e == LineEnd(s, pos + 1) IN
       <<SubSeq(s, pos + 1, e)>> \o FindAll(s, lit, e + 1)
  ELSE FindAll(s, lit, pos + 1)

\* the mapping compare_schemas returns when it scored the response
Scores(acc, resp) ==
  [accuracy |-> acc,
   missing_fields |-> FindAll(resp, MISSING, 1),
   additional_fields |-> FindAll(resp, ADDITIONAL, 1),
   detailed_comparison |-> resp]

\* {"error": str(e)}
CmpError(msg) == [error |-> msg]

\* faulty variant: a response without a percentage scores 0
NoAccuracyDefault(resp) == Scores([num |-> 0, den |-> 1], resp)

\* else: raise ValueError(...), caught by except Exception
NoAccuracyFound(resp) == CmpError(NoAccuracyText)

\* compare_schemas: the try block and its handler
compare_schemas(o) ==
  IF o.kind = "raise" THEN CmpError(RequestErrorText)
  ELSE LET m == accuracy_match(o.text) IN
       IF m.ok THEN Scores(Float(m.whole, m.frac), o.text)
       ELSE NoAccuracyFound(o.text)

InitCmp == cmp = [pc |-> "idle", outcome |-> "none", text |-> <<>>, result |-> EmptyMap]

\* one call of compare_schemas
CompareSchemas ==
  /\ cmp.pc = "idle"
  /\ \E o \in CmpOutcomes :
       cmp' = [pc |-> "done", outcome |-> o.kind, text |-> o.text, result |-> compare_schemas(o)]
  /\ UNCHANGED <<genVars, extVars, web, jsn, ses, mn>>

(* -------------------------- extract_text_from_web ----------------------- *)
\* the parsed page, in document order: a text node (a NavigableString) with
\* the tag it lies in, or an <img> tag with its src attribute ("none": the
\* tag has no src)
WebTexts == {<<"a">>, <<" ", "a", " ", " ", "b">>}
ImageSrcs == {"none", "u1", "u2"}
WebNodes ==
  [tag : {"p", "div"}, text : WebTexts, src : {"none"}]
    \cup [tag : {"img"}, text : {<<>>}, src : ImageSrcs]
WebDocs == UNION {[1..n -> WebNodes] : n \in 0..MaxNodes}

\* str.split(): the words between runs of white space
RECURSIVE Words(_, _)
Words(t, cur) ==
  IF t = <<>> THEN (IF cur = <<>> THEN <<>> ELSE <<cur>>)
  ELSE IF Head(t) = " "
  THEN (IF cur = <<>> THEN <<>> ELSE <<cur>>) \o Words(Tail(t), <<>>)
  ELSE Words(Tail(t), Append(cur, Head(t)))

\* ' '.join(parts)
RECURSIVE JoinSpace(_)
JoinSpace(parts) ==
  IF parts = <<>> THEN <<>>
  ELSE IF Len(parts) = 1 THEN Head(parts)
  ELSE Head(parts) \o <<" ">> \o JoinSpace(Tail(parts))

\* [img['src'] for img in soup.find_all('img') if 'src' in img.attrs]
RECURSIVE images(_)
images(doc) ==
  IF doc = <<>> THEN <<>>
  ELSE IF Head(doc).tag = "img" /\ Head(doc).src # "none"
  THEN <<<<Head(doc).src>>>> \o images(Tail(doc))
  ELSE images(Tail(doc))

\* tag.name of an object that soup.find_all(text=True) yields: these are the
\* NavigableString objects of the tree, and NavigableString.name is None
\* whatever tag the string lies in
TagName(node) == "None"

\* the loop over soup.find_all(text=True)
RECURSIVE formatted_text(_)
formatted_text(doc) ==
  IF doc = <<>> THEN <<>>
  ELSE LET n == Head(doc) IN
       IF n.tag = "img" THEN formatted_text(Tail(doc))
       ELSE IF TagName(n) = "p"
       THEN <<"\n">> \o n.text \o <<"\n">> \o formatted_text(Tail(doc))
       ELSE JoinSpace(Words(n.text, <<>>)) \o formatted_text(Tail(doc))

\* extract_text_from_web: requests.get or raise_for_status raises, or the
\* text and the image URLs are returned
extract_text_from_web(ok, doc) ==
  IF ok THEN [kind |-> "text", text |-> formatted_text(doc) \o JoinSpace(images(doc))]
  ELSE [kind |-> "raise", text |-> <<>>]

InitWeb == web = [pc |-> "idle", doc |-> <<>>, outcome |-> "none", text |-> <<>>]

\* one call of extract_text_from_web
ExtractTextFromWeb ==
  /\ web.pc = "idle"
  /\ \E ok \in BOOLEAN, doc \in WebDocs :
       /\ ~ok => doc = <<>>
       /\ LET r == extract_text_from_web(ok, doc) IN
          web' = [pc |-> "done", doc |-> doc, outcome |-> r.kind, text |-> r.text]
  /\ UNCHANGED <<genVars, extVars, cmp, jsn, ses, mn>>


(* ------------------------- extract_text_from_json ----------------------- *)
\* an uploaded text: any sequence of JSON lexemes
JsonTokens == {LBRACE, RBRACE, COLON, COMMA, NUMBER} \cup StringLiterals
JsonTexts == UNION {[1..n -> JsonTokens] : n \in 0..MaxLen}

\* the white space json.dumps(..., indent=2) writes
SPACE == " "
INDENT == "  "

RECURSIVE Indentation(_)
Indentation(level) == IF level = 0 THEN <<>> ELSE <<INDENT>> \o Indentation(level - 1)

\* json.dumps(v, indent=2) at a nesting level; the members of a dict are
\* written one per line (the order of the keys is not modelled: a dict of the
\* model is a function)
RECURSIVE json_dumps(_, _), DumpMembers(_, _, _)
json_dumps(v, level) ==
  IF v.t # "dict" THEN <<v.s>>
  ELSE IF Keys(v) = {} THEN <<LBRACE, RBRACE>>
  ELSE <<LBRACE, NEWLINE>> \o DumpMembers(v, Keys(v), level + 1)
         \o <<NEWLINE>> \o Indentation(level) \o <<RBRACE>>

DumpMembers(v, ks, level) ==
  LET k == CHOOSE k \in ks : TRUE
      member == Indentation(level) \o <<k, COLON, SPACE>> \o json_dumps(v.m[k], level)
  IN IF ks = {k} THEN member
     ELSE member \o <<COMMA, NEWLINE>> \o DumpMembers(v, ks \ {k}, level)

\* what the caller gets: None, or a str
NoneResult == [kind |-> "none", text |-> <<>>]
StrResult(t) == [kind |-> "str", text |-> t]

\* faulty variant: the text is handed back undecoded
JSONDecodeErrorEcho(json_content) == StrResult(json_content)

\* except json.JSONDecodeError: log and return None
JSONDecodeErrorCaught(json_content) == NoneResult

extract_text_from_json(json_content) ==
  LET content == json_loads(json_content) IN
  IF content.ok THEN StrResult(json_dumps(content.val, 0))
  ELSE JSONDecodeErrorCaught(json_content)

\* the caller's test `if not text_content`
CallerRejects(r) == r.kind = "none" \/ r.text = <<>>

InitJsn == jsn = [pc |-> "idle", json_content |-> <<>>, result |-> NoneResult]

\* one call of extract_text_from_json
ExtractTextFromJson ==
  /\ jsn.pc = "idle"
  /\ \E t \in JsonTexts :
       jsn' = [pc |-> "done", json_content |-> t, result |-> extract_text_from_json(t)]
  /\ UNCHANGED <<genVars, extVars, cmp, web, ses, mn>>


(* ------------------------- the session of app.py ------------------------ *)
\* what generate_schema of app.py can end with, over all the outcomes of the
\* completion request
SchemaResults == {AppBody(o) : o \in Outcomes}

\* the pages, the uploaded files, the pasted schemas and the comparison
\* responses the handlers are tried with
SessionDocs == {<<>>, <<[tag |-> "p", text |-> <<"a">>, src |-> "none"]>>}
SessionFiles == {<<LBRACE>>, <<LBRACE, RBRACE>>}
UserSchemas == {<<>>, <<LBRACE, RBRACE>>, <<LBRACE, "url", COLON, "url", RBRACE>>}
SessionComparisons ==
  {[kind |-> "raise", text |-> <<>>],
   [kind |-> "text", text |-> <<LETTER>>],
   [kind |-> "text", text |-> <<DIGIT, PERCENT>>]}

\* bool(v) of None or a dict
Truthy(v) == v.t = "dict" /\ Keys(v) # {}

\* if "generated_schema" not in st.session_state: ... = None
InitSes ==
  ses = [generated_schema |-> NoValue, shown |-> "nothing", compared |-> <<>>, clicks |-> 0]

\* the end of both generate handlers: the result is stored, then tested for
\* the key "error"
StoreGenerated(b) ==
  IF b.act = "raise"
  THEN ses' = [ses EXCEPT !.shown = "exception", !.clicks = @ + 1]
  ELSE ses' = [ses EXCEPT !.generated_schema = b.val,
                          !.shown = IF "error" \in Keys(b.val) THEN "generation_error"
                                    ELSE "schema",
                          !.clicks = @ + 1]

\* the button "Generate Schema from URL"
GenerateFromURL ==
  /\ ses.clicks < MaxClicks
  /\ \E url \in {"", "u"}, ok \in BOOLEAN, doc \in SessionDocs, b \in SchemaResults :
       IF url = ""
       THEN ses' = [ses EXCEPT !.shown = "no_url", !.clicks = @ + 1]
       ELSE LET text_content == extract_text_from_web(ok, doc) IN
            IF text_content.kind = "raise"
            THEN ses' = [ses EXCEPT !.shown = "exception", !.clicks = @ + 1]
            ELSE IF text_content.text = <<>>
            THEN ses' = [ses EXCEPT !.shown = "fetch_error", !.clicks = @ + 1]
            ELSE StoreGenerated(b)
  /\ UNCHANGED <<genVars, extVars, cmp, web, jsn, mn>>

\* the button "Generate Schema from JSON File", with a file uploaded
GenerateFromFile ==
  /\ ses.clicks < MaxClicks
  /\ \E json_content \in SessionFiles, b \in SchemaResults :
       IF CallerRejects(extract_text_from_json(json_content))
       THEN ses' = [ses EXCEPT !.shown = "parse_error", !.clicks = @ + 1]
       ELSE StoreGenerated(b)
  /\ UNCHANGED <<genVars, extVars, cmp, web, jsn, mn>>

\* the button "Validate Schema"
ValidateSchema ==
  /\ ses.clicks < MaxClicks
  /\ \E user_schema \in UserSchemas, c \in SessionComparisons :
       IF ~json_loads(user_schema).ok
       THEN ses' = [ses EXCEPT !.shown = "invalid_json", !.clicks = @ + 1]
       ELSE IF Truthy(ses.generated_schema)
       THEN ses' = [ses EXCEPT
                      !.compared = Append(@, [user_schema |-> user_schema,
                                              generated |-> ses.generated_schema]),
                      !.shown = IF "error" \in DOMAIN compare_schemas(c)
                                THEN "comparison_error" ELSE "comparison",
                      !.clicks = @ + 1]
       ELSE ses' = [ses EXCEPT !.shown = "no_generated_schema", !.clicks = @ + 1]
  /\ UNCHANGED <<genVars, extVars, cmp, web, jsn, mn>>


(* ------- json-id-generator.py: the handler "Generate Schema from URL" ---- *)
\* retries=3, the default the handler calls generate_schema with
DefaultRetries == 3

\* the labels of content_selectors, in the order the dict holds them
CategoryOrder == <<"Paragraphs", "Headings", "Divs", "Spans", "Articles", "Sections">>

\* [content for section in result['contents'].values() for content in section]
RECURSIVE SectionContents(_, _)
SectionContents(contents, i) ==
  IF i > Len(CategoryOrder) THEN <<>>
  ELSE (IF CategoryOrder[i] \in DOMAIN contents THEN contents[CategoryOrder[i]] ELSE <<>>)
         \o SectionContents(contents, i + 1)

\* "\n".join(parts)
RECURSIVE JoinNewline(_)
JoinNewline(parts) ==
  IF parts = <<>> THEN <<>>
  ELSE IF Len(parts) = 1 THEN Head(parts)
  ELSE Head(parts) \o <<NEWLINE>> \o JoinNewline(Tail(parts))

\* bool(result) of what comprehensive_extraction returned: None is false, the
\* dict {'contents': ...} has a key and is true, whatever its contents
ResultTruthy(r) == r.kind = "mapping"

\* the handler has been entered with a URL and waits for the extractor
InitMain ==
  mn = [pc |-> "fetching", navigate_failed |-> FALSE, harvest_failed |-> FALSE,
        input_text |-> <<>>, generated_schema |-> NoValue, shown |-> "nothing"]

\* AdvancedWebContentExtractor(url) or comprehensive_extraction raised: the
\* exception leaves the handler
MainException ==
  /\ mn.pc = "fetching"
  /\ xpc \in {"ctor_failed", "raised"}
  /\ mn' = [mn EXCEPT !.pc = "shown", !.shown = "exception"]
  /\ xpc' = "discarded"
  /\ UNCHANGED <<strat, nfound, elem, tried, activated, events, quitCalls, usedAfterQuit,
                 harvests, extracted, xresult>>
  /\ UNCHANGED <<genVars, cmp, web, jsn, ses>>

\* comprehensive_extraction returned: `if result:` joins the contents and
\* generate_schema is entered with the default retries, else the fetch error
\* is shown.  The extractor is not used again; what happened to it is kept
\* in mn and its fields are cleared.
MainReceive ==
  /\ mn.pc = "fetching"
  /\ xpc = "returned"
  /\ IF ResultTruthy(xresult)
     THEN /\ mn' = [mn EXCEPT !.pc = "generating",
                              !.navigate_failed = "navigate_failed" \in events,
                              !.harvest_failed = "harvest_failed" \in events,
                              !.input_text = JoinNewline(SectionContents(xresult.contents, 1))]
          /\ fn' = "retrying"
          /\ retries' = DefaultRetries
          /\ attempt' = 0
          /\ pc' = "loop"
     ELSE /\ mn' = [mn EXCEPT !.pc = "shown",
                              !.navigate_failed = "navigate_failed" \in events,
                              !.harvest_failed = "harvest_failed" \in events,
                              !.shown = "fetch_error"]
          /\ UNCHANGED <<fn, retries, attempt, pc>>
  /\ xpc' = "discarded"
  /\ strat' = 0
  /\ nfound' = 0
  /\ elem' = 0
  /\ tried' = <<>>
  /\ activated' = <<>>
  /\ events' = {}
  /\ extracted' = EmptyMap
  /\ xresult' = [kind |-> "unset", contents |-> EmptyMap]
  /\ UNCHANGED <<quitCalls, usedAfterQuit, harvests>>
  /\ UNCHANGED <<calls, raised, sleeps, waited, lacking, outcome, response, result>>
  /\ UNCHANGED <<cmp, web, jsn, ses>>

\* generate_schema ended: its result is stored and tested for the key "error"
MainShow ==
  /\ mn.pc = "generating"
  /\ pc \in {"done", "raised"}
  /\ mn' = IF pc = "raised"
           THEN [mn EXCEPT !.pc = "shown", !.shown = "exception"]
           ELSE [mn EXCEPT !.pc = "shown",
                           !.generated_schema = result,
                           !.shown = IF "error" \in Keys(result) THEN "generation_error"
                                     ELSE "schema"]
  /\ UNCHANGED <<genVars, extVars, cmp, web, jsn, ses>>


vars == <<genVars, extVars, otherVars>>

Init == InitGen /\ InitExt /\ InitCmp /\ InitWeb /\ InitJsn /\ InitSes /\ InitMain

\* a call of either generate_schema
NextGen ==
  \/ CallApp
  \/ CallRetrying
  \/ Attempt
  \/ Exhaust

SpecGen == Init /\ [][NextGen]_vars

\* one extractor: its construction and one call of comprehensive_extraction
NextExt ==
  \/ Construct
  \/ Navigate
  \/ Locate
  \/ Activate
  \/ Harvest
  \/ Teardown

SpecExt == Init /\ [][NextExt]_vars

\* one call of compare_schemas
NextCmp ==
  \/ CompareSchemas

SpecCmp == Init /\ [][NextCmp]_vars

\* one call of extract_text_from_web
NextWeb ==
  \/ ExtractTextFromWeb

SpecWeb == Init /\ [][NextWeb]_vars

\* one call of extract_text_from_json
NextJsn ==
  \/ ExtractTextFromJson

SpecJsn == Init /\ [][NextJsn]_vars

\* a session of app.py: the three buttons, in any order
NextSes ==
  \/ GenerateFromURL
  \/ GenerateFromFile
  \/ ValidateSchema

SpecSes == Init /\ [][NextSes]_vars

\* the handler "Generate Schema from URL" of json-id-generator.py: the
\* extractor, then generate_schema
NextMain ==
  \/ Construct
  \/ Navigate
  \/ Locate
  \/ Activate
  \/ Harvest
  \/ Teardown
  \/ MainException
  \/ MainReceive
  \/ Attempt
  \/ Exhaust
  \/ MainShow

SpecMain == Init /\ [][NextMain]_vars

(* ------------------- properties of generate_schema ---------------------- *)
\* the function has ended: it returned or it raised
Ended == pc \in {"done", "raised"}

\* a "{" and a later "}"
HasBracePair(s) ==
  \E i, j \in 1..Len(s) : i < j /\ s[i] = LBRACE /\ s[j] = RBRACE

FirstOpen(s) == CHOOSE i \in 1..Len(s) : s[i] = LBRACE /\ \A k \in 1..(i - 1) : s[k] # LBRACE
LastClose(s) == CHOOSE j \in 1..Len(s) : s[j] = RBRACE /\ \A k \in (j + 1)..Len(s) : s[k] # RBRACE
\* the substring from the first "{" to the last "}"
BraceSpan(s) == SubSeq(s, FirstOpen(s), LastClose(s))

\* the last request returned a text with a brace pair whose span is not JSON
SpanInvalid == outcome = "text" /\ HasBracePair(response) /\ ~json_loads(BraceSpan(response)).ok
\* ... whose span is JSON
SpanValid == outcome = "text" /\ HasBracePair(response) /\ json_loads(BraceSpan(response)).ok

\* the function returned on the attempt that received the last response: one
\* request for that attempt, no delay after it
ReturnedAtOnce == pc = "done" /\ calls = attempt + 1 /\ sleeps = attempt

(* C1: for every attempt limit n >= 0, when the completion request raises on
   every attempt, the retrying generate_schema issues exactly n requests,
   then returns the exhaustion error marker; it does not raise. *)
C1_AllRaiseExhausts ==
  (fn = "retrying" /\ raised = calls) =>
    /\ pc # "raised"
    /\ calls <= retries
    /\ pc = "loop" => (calls < retries \/ ENABLED Exhaust)
    /\ pc = "done" => (calls = retries /\ result = ErrorMarker(ExhaustedText))

C1_Witness ==
  /\ fn = "retrying" /\ pc = "done" /\ retries >= 2
  /\ raised = calls /\ calls = retries
  /\ result = ErrorMarker(ExhaustedText)

(* C2: malformed model output is never retried: once a completion request
   has returned a text with no brace pair, the retrying generate_schema
   issues no further completion request. *)
C2_MalformedNeverRetried ==
  [][(fn = "retrying" /\ lacking > 0) => calls' = calls]_vars

(* C3: a response with a "{" and a later "}" whose span from the first "{" to
   the last "}" is not valid JSON makes generate_schema return the invalid-JSON
   error marker at once: one request for that attempt, no delay, no further
   attempt. *)
C3_InvalidJsonReturnsAtOnce ==
  SpanInvalid => (ReturnedAtOnce /\ result = ErrorMarker(InvalidJsonText))

C3_Witness ==
  /\ SpanInvalid /\ fn = "retrying" /\ retries >= attempt + 2
  /\ pc = "done" /\ result = ErrorMarker(InvalidJsonText)

(* C4: when every response the model returned lacks a brace pair, the result
   of either generate_schema is an error marker (a mapping with the key
   "error"): never a schema, None or a raised exception. *)
C4_NoPairGivesErrorMarker ==
  (Ended /\ lacking >= 1 /\ lacking = calls - raised) =>
    (pc = "done" /\ result.t = "dict" /\ "error" \in Keys(result))

C4_Witness ==
  /\ fn = "retrying" /\ pc = "done" /\ lacking = 2 /\ raised = 0
  /\ "error" \in Keys(result)

C4_WitnessApp ==
  /\ fn = "app" /\ pc = "done" /\ lacking = 1 /\ "error" \in Keys(result)

\* the ways to write resp as prefix + J + suffix: J = resp[i..j] the text of a
\* JSON object, no "{" in the prefix, no "}" in the suffix
Embeddings(resp) ==
  {ij \in (1..Len(resp)) \X (1..Len(resp)) :
     /\ ij[1] <= ij[2]
     /\ resp[ij[1]] = LBRACE
     /\ json_loads(SubSeq(resp, ij[1], ij[2])).ok
     /\ \A k \in 1..(ij[1] - 1) : resp[k] # LBRACE
     /\ \A k \in (ij[2] + 1)..Len(resp) : resp[k] # RBRACE}

(* C5: for a response prefix + J + suffix, J the text of a valid JSON object,
   no "{" in the prefix and no "}" in the suffix, generate_schema returns
   exactly the object decoded from J, on the attempt that received it and with
   one request (the first attempt when nothing failed before). *)
C5_EmbeddedObjectReturned ==
  (outcome = "text" /\ Embeddings(response) # {}) =>
    /\ ReturnedAtOnce
    /\ \A ij \in Embeddings(response) : result = json_loads(SubSeq(response, ij[1], ij[2])).val
    /\ (raised = 0 /\ lacking = 0) => (calls = 1 /\ attempt = 0)

C5_Witness ==
  /\ pc = "done" /\ outcome = "text" /\ calls = 1
  /\ \E ij \in Embeddings(response) : ij[1] > 1 /\ ij[2] < Len(response)
  /\ result.t = "dict"

\* the first position at which a balanced, valid JSON object starts
HasObject(resp) == \E i \in 1..Len(resp) : resp[i] = LBRACE /\ ParseValue(resp, i).ok
FirstObjectAt(resp) ==
  CHOOSE i \in 1..Len(resp) :
    /\ resp[i] = LBRACE /\ ParseValue(resp, i).ok
    /\ \A k \in 1..(i - 1) : ~(resp[k] = LBRACE /\ ParseValue(resp, k).ok)
FirstObject(resp) == ParseValue(resp, FirstObjectAt(resp))
\* the first object starts at the first "{" and no "}" follows it
FirstObjectIsSpan(resp) ==
  /\ \A k \in 1..(FirstObjectAt(resp) - 1) : resp[k] # LBRACE
  /\ \A k \in FirstObject(resp).next..Len(resp) : resp[k] # RBRACE

(* C6 as stated: the result is the decoding of the first balanced, valid JSON
   object of the response, also when further braces or objects follow it. *)
C6_FirstBalancedObject ==
  (outcome = "text" /\ HasObject(response)) =>
    (pc = "done" /\ result = FirstObject(response).val)

(* C6 amended: generate_schema parses the text from the first "{" to the last
   "}".  For a response holding a balanced valid object, the result is the
   decoding of the first such object when it starts at the first "{" and no "}"
   follows it, and the invalid-JSON error marker otherwise. *)
C6_FirstToLastBrace ==
  (outcome = "text" /\ HasObject(response)) =>
    /\ pc = "done"
    /\ result = IF FirstObjectIsSpan(response)
                THEN FirstObject(response).val
                ELSE ErrorMarker(InvalidJsonText)

C6_Witness ==
  /\ pc = "done" /\ outcome = "text" /\ HasObject(response)
  /\ ~FirstObjectIsSpan(response)
  /\ FirstObjectAt(response) = 1
  /\ result = ErrorMarker(InvalidJsonText)

RequiredKeys == {"@context", "@type", "url", "description"}

(* C7 as stated: every value returned is a mapping with at least the keys
   @context, @type, url and description, or a mapping whose only key is
   error. *)
C7_TwoForms ==
  pc = "done" =>
    /\ result.t = "dict"
    /\ RequiredKeys \subseteq Keys(result) \/ Keys(result) = {"error"}

(* C7 amended: every value returned is a mapping: either the JSON object
   decoded from the text between the first "{" and the last "}" of the
   response, with whatever keys it has, or an error marker, whose only key is
   error and whose value is a message. *)
C7_MappingOrMarker ==
  pc = "done" =>
    /\ result.t = "dict"
    /\ \/ SpanValid /\ result = json_loads(BraceSpan(response)).val
       \/ Keys(result) = {"error"} /\ result.m["error"].t = "str"

C7_Witness ==
  /\ pc = "done" /\ SpanValid /\ result.t = "dict"
  /\ ~(RequiredKeys \subseteq Keys(result)) /\ "error" \notin Keys(result)

(* C16: in the retrying generate_schema, whatever each attempt's outcome, the
   requests issued never exceed the attempt limit, and every failed attempt
   (one that ended in the handler: the request raised, or the response had
   no brace pair) is followed by exactly one delay of 2 seconds; so the
   delays are as many as the failed attempts, the last one included: when
   the attempts are exhausted, as many delays as requests were taken. *)
C16_OneDelayPerFailedAttempt ==
  fn = "retrying" =>
    /\ calls <= retries
    /\ sleeps = raised + lacking
    /\ waited = BackoffSeconds * sleeps
    /\ (pc = "done" /\ result = ErrorMarker(ExhaustedText)) => sleeps = retries /\ calls = retries

\* two failed attempts, one of each sort, then the exhaustion marker
C16_Witness ==
  /\ fn = "retrying" /\ pc = "done" /\ result = ErrorMarker(ExhaustedText)
  /\ raised = 1 /\ lacking = 1 /\ sleeps = 2 /\ waited = 4


(* C19: the value generate_schema returns has the key "error" exactly when
   the generation failed; an object decoded from the model's response is
   never taken for an error marker by a caller that tests for that key. *)
C19_ErrorKeyIffFailed ==
  pc = "done" => ("error" \in Keys(result) <=> ~SpanValid)


(* ---------------- properties of comprehensive_extraction ---------------- *)
\* comprehensive_extraction has ended
ExtEnded == xpc \in {"returned", "raised"}
\* the expand phase is over
ExpandEnded == xpc \in {"harvest", "teardown", "returned", "raised"}
\* 1, 2, ..., n
UpTo(n) == [i \in 1..n |-> i]

(* C8: on every path of comprehensive_extraction (navigation fails, a
   strategy fails, an activation fails, harvesting raises, all succeed)
   driver.quit has been called when the call ends, it is called only at the
   end, and no browser operation is issued after it. *)
C8_DriverTornDown ==
  /\ ExtEnded => quitCalls = 1
  /\ quitCalls > 0 => ExtEnded
  /\ ~usedAfterQuit

C8_Witness ==
  /\ xpc = "returned" /\ quitCalls = 1 /\ ~usedAfterQuit
  /\ {"harvest_failed", "locate_failed", "click_failed"} \subseteq events

C8_WitnessNavigation ==
  /\ xpc = "returned" /\ quitCalls = 1 /\ "navigate_failed" \in events

(* C9: once the page is loaded, the five locator strategies are all tried,
   in their fixed order, whether earlier ones matched nothing or raised; in
   one strategy an activation is attempted on every located element, in
   order, whether earlier scrolls or clicks raised; and the expand phase ends
   in the harvest, no local failure leaving it. *)
C9_ExpandVisitsAll ==
  /\ tried = UpTo(Len(tried))
  /\ activated = UpTo(Len(activated))
  /\ xpc = "strategy" => Len(tried) = strat - 1
  /\ xpc = "element" => (Len(tried) = strat /\ Len(activated) = elem - 1 /\ elem <= nfound)
  /\ xpc # "element" => Len(activated) = nfound
  /\ (ExpandEnded /\ "navigate_failed" \notin events) => tried = UpTo(NumStrategies)
  /\ xpc = "raised" => "quit_failed" \in events

C9_Witness ==
  /\ xpc = "harvest" /\ tried = UpTo(NumStrategies)
  /\ {"locate_failed", "zero_matched", "scroll_failed", "click_failed"} \subseteq events
  /\ nfound = MaxElems /\ Len(activated) = nfound

\* a list of non-empty trimmed strings
TrimmedTexts(l) == \A i \in 1..Len(l) : l[i] # <<>> /\ Strip(l[i]) = l[i]

(* C10: comprehensive_extraction returns None, or a mapping whose contents
   value has exactly the six category labels, each mapped to a list of
   non-empty trimmed strings; it returns None after an unrecoverable error,
   never a contents mapping that lacks the six categories. *)
C10_NoneOrSixCategories ==
  xpc = "returned" =>
    \/ xresult.kind = "none"
    \/ /\ xresult.kind = "mapping"
       /\ DOMAIN xresult.contents = Categories
       /\ \A c \in Categories : TrimmedTexts(xresult.contents[c])

(* C17: on every path of comprehensive_extraction the harvest is attempted
   exactly once, after the expand phase has ended and before the driver is
   torn down; a navigation failure skips the rest of the expand phase (no
   strategy is tried) but not the harvest. *)
C17_HarvestOnceBetween ==
  /\ harvests <= 1
  /\ ExtEnded => harvests = 1
  /\ harvests = 1 => xpc \in {"teardown", "returned", "raised"}
  /\ quitCalls > 0 => harvests = 1
  /\ "navigate_failed" \in events => tried = <<>>

\* the page could not be loaded, and the harvest was still attempted
C17_Witness ==
  /\ xpc = "returned"
  /\ "navigate_failed" \in events
  /\ harvests = 1
  /\ tried = <<>>


(* --------------------- properties of compare_schemas -------------------- *)
\* s[a..b] is a non-empty run of digits
AllDigits(s, a, b) == a <= b /\ \A k \in a..b : s[k] = DIGIT

\* s[i..j] is a percentage: digits, an optional "." and digits, then "%"
IsPercentage(s, i, j) ==
  /\ 1 <= i /\ i < j /\ j <= Len(s)
  /\ s[j] = PERCENT
  /\ \/ AllDigits(s, i, j - 1)
     \/ \E d \in (i + 1)..(j - 2) :
          s[d] = DOT /\ AllDigits(s, i, d - 1) /\ AllDigits(s, d + 1, j - 1)

HasPercentage(s) == \E i, j \in 1..Len(s) : IsPercentage(s, i, j)

CmpDone == cmp.pc = "done"
Scored == CmpDone /\ "accuracy" \in DOMAIN cmp.result

(* C11: for every comparison response that holds no percentage pattern
   (digits, an optional fraction, then "%"), compare_schemas returns an
   error marker and never a result with an accuracy. *)
C11_NoPercentageGivesError ==
  (CmpDone /\ cmp.outcome = "text" /\ ~HasPercentage(cmp.text))
    => /\ DOMAIN cmp.result = {"error"}
       /\ cmp.result.error = NoAccuracyText

\* a response with digits and a "%" that are not a percentage pattern
C11_Witness ==
  /\ CmpDone /\ cmp.outcome = "text" /\ ~HasPercentage(cmp.text)
  /\ \E i, j \in 1..Len(cmp.text) : i < j /\ cmp.text[i] = DIGIT /\ cmp.text[j] = PERCENT
  /\ "error" \in DOMAIN cmp.result

(* C12: every result of compare_schemas that is not an error marker carries
   an accuracy between 0 and 100 inclusive, whatever the response text. *)
C12_AccuracyWithin0And100 ==
  Scored => /\ 0 <= cmp.result.accuracy.num
            /\ cmp.result.accuracy.num <= 100 * cmp.result.accuracy.den

\* the lines of a text (split at "\n")
RECURSIVE SplitLines(_, _)
SplitLines(s, cur) ==
  IF s = <<>> THEN <<cur>>
  ELSE IF Head(s) = NEWLINE THEN <<cur>> \o SplitLines(Tail(s), <<>>)
  ELSE SplitLines(Tail(s), Append(cur, Head(s)))

\* the line holds the literal followed by at least one character
HasEntry(line, lit) == \E k \in 1..(Len(line) - 1) : line[k] = lit

\* the rest of the line after the first occurrence of the literal
EntryOf(line, lit) ==
  LET k == CHOOSE k \in 1..Len(line) : line[k] = lit /\ \A h \in 1..(k - 1) : line[h] # lit
  IN SubSeq(line, k + 1, Len(line))

RECURSIVE EntriesOf(_, _)
EntriesOf(lines, lit) ==
  IF lines = <<>> THEN <<>>
  ELSE IF HasEntry(Head(lines), lit)
  THEN <<EntryOf(Head(lines), lit)>> \o EntriesOf(Tail(lines), lit)
  ELSE EntriesOf(Tail(lines), lit)

(* C13: in a scored result, missing_fields has exactly one entry for each
   line of the response holding "Missing fields: " followed by at least one
   character, in line order, the entry being the rest of that line; the same
   holds of additional_fields and "Additional fields: "; with no such line
   the list is empty.  So a single line with a percentage, "Missing fields: "
   and later "Additional fields: " gives one entry in each list. *)
C13_OneEntryPerLine ==
  Scored =>
    /\ cmp.result.missing_fields = EntriesOf(SplitLines(cmp.text, <<>>), MISSING)
    /\ cmp.result.additional_fields = EntriesOf(SplitLines(cmp.text, <<>>), ADDITIONAL)

\* the single line "5% Missing fields: x Additional fields: x"
C13_Witness ==
  /\ Scored
  /\ cmp.text = <<DIGIT, PERCENT, MISSING, LETTER, ADDITIONAL, LETTER>>
  /\ cmp.result.accuracy = [num |-> 5, den |-> 1]
  /\ cmp.result.missing_fields = <<<<LETTER, ADDITIONAL, LETTER>>>>
  /\ cmp.result.additional_fields = <<<<LETTER>>>>

\* two lines with an entry each, and a line whose literal ends the line
C13_WitnessLines ==
  /\ Scored
  /\ Len(cmp.result.missing_fields) = 2
  /\ \E i \in 1..Len(cmp.text) :
       cmp.text[i] = MISSING /\ (i = Len(cmp.text) \/ cmp.text[i + 1] = NEWLINE)

(* ------------------ properties of extract_text_from_web ----------------- *)
WebReturned == web.pc = "done" /\ web.outcome = "text"

\* what the text is said to be: a block "\n" text "\n" for each paragraph,
\* the collapsed text of any other node, then the image URLs
RECURSIVE Blocks(_)
Blocks(doc) ==
  IF doc = <<>> THEN <<>>
  ELSE LET n == Head(doc) IN
       IF n.tag = "img" THEN Blocks(Tail(doc))
       ELSE IF n.tag = "p" THEN <<"\n">> \o n.text \o <<"\n">> \o Blocks(Tail(doc))
       ELSE JoinSpace(Words(n.text, <<>>)) \o Blocks(Tail(doc))

RECURSIVE ImageUrls(_)
ImageUrls(doc) ==
  IF doc = <<>> THEN <<>>
  ELSE IF Head(doc).tag = "img" /\ Head(doc).src # "none"
  THEN <<<<Head(doc).src>>>> \o ImageUrls(Tail(doc))
  ELSE ImageUrls(Tail(doc))

(* C14: for a page with N paragraphs and M images whose every image has a
   src, the returned text holds N paragraph blocks, each with a newline
   before and after its text, in document order, the other text with its
   white space collapsed and no separator, and ends with the M image URLs
   joined by spaces. *)
C14_ParagraphBlocksThenImages ==
  (WebReturned /\ \A k \in 1..Len(web.doc) : web.doc[k].tag = "img" => web.doc[k].src # "none")
    => web.text = Blocks(web.doc) \o JoinSpace(ImageUrls(web.doc))

(* ----------------- properties of extract_text_from_json ----------------- *)
\* the JSON grammar, as a recogniser that builds nothing:
\*   value   ::= NUMBER | string | { } | { members }
\*   members ::= string : value | string : value , members
RECURSIVE IsJsonValue(_), IsJsonMembers(_)
IsJsonValue(s) ==
  \/ Len(s) = 1 /\ (s[1] = NUMBER \/ s[1] \in StringLiterals)
  \/ Len(s) = 2 /\ s[1] = LBRACE /\ s[2] = RBRACE
  \/ Len(s) > 2 /\ s[1] = LBRACE /\ s[Len(s)] = RBRACE
       /\ IsJsonMembers(SubSeq(s, 2, Len(s) - 1))

IsJsonMembers(s) ==
  /\ Len(s) >= 3
  /\ s[1] \in StringLiterals
  /\ s[2] = COLON
  /\ \/ IsJsonValue(SubSeq(s, 3, Len(s)))
     \/ \E c \in 4..(Len(s) - 1) :
          /\ s[c] = COMMA
          /\ IsJsonValue(SubSeq(s, 3, c - 1))
          /\ IsJsonMembers(SubSeq(s, c + 1, Len(s)))

IsWhiteSpace(x) == x \in {SPACE, INDENT, NEWLINE}
NotWhiteSpace(x) == ~IsWhiteSpace(x)

JsnDone == jsn.pc = "done"

(* C15: extract_text_from_json returns None for every text that is not valid
   JSON (no partial string, no exception), and for every valid JSON text a
   non-empty pretty-printed string of the same value; so the caller's
   `if not text_content` rejects exactly the invalid texts. *)
C15_NoneIffInvalid ==
  JsnDone =>
    /\ ~IsJsonValue(jsn.json_content) => jsn.result = NoneResult
    /\ IsJsonValue(jsn.json_content) =>
         /\ jsn.result.kind = "str"
         /\ jsn.result.text # <<>>
         /\ json_loads(SelectSeq(jsn.result.text, NotWhiteSpace)) = json_loads(jsn.json_content)
    /\ CallerRejects(jsn.result) <=> ~IsJsonValue(jsn.json_content)

\* an object with a member, printed over three lines
C15_Witness ==
  /\ JsnDone
  /\ jsn.json_content = <<LBRACE, "url", COLON, NUMBER, RBRACE>>
  /\ jsn.result.text = <<LBRACE, NEWLINE, INDENT, "url", COLON, SPACE, NUMBER, NEWLINE, RBRACE>>

\* an object that is cut short
C15_WitnessInvalid ==
  /\ JsnDone
  /\ jsn.json_content = <<LBRACE, "url", COLON, NUMBER>>
  /\ jsn.result = NoneResult

(* ------------------- properties of the session of app.py ---------------- *)
\* the error markers a failed generation of app.py leaves in the session
GenerationErrorMarkers ==
  {ErrorMarker(RequestErrorText), ErrorMarker(NoJsonText), ErrorMarker(InvalidJsonText)}

(* C18: after any sequence of the three buttons, compare_schemas has been
   invoked only with a user text that is valid JSON and a stored schema that
   was generated successfully: never with no generation done, and never with
   the error marker a failed generation left in the session. *)
C18_ComparedOnlyWithGenerated ==
  \A i \in 1..Len(ses.compared) :
    /\ json_loads(ses.compared[i].user_schema).ok
    /\ ses.compared[i].generated # NoValue
    /\ ses.compared[i].generated \notin GenerationErrorMarkers

(* ------ properties of "Generate Schema from URL" (json-id-generator.py) -- *)
(* C20: when the extractor could not load the page or could not harvest it,
   the handler ends with "Could not fetch webpage content" and issues no
   completion request; a request is issued only after an extraction that
   harvested the page. *)
C20_NoRequestWithoutContent ==
  (mn.navigate_failed \/ mn.harvest_failed)
    => /\ calls = 0
       /\ mn.pc = "shown" => mn.shown = "fetch_error"

=============================================================================
